---- MODULE Spec2Model ----
(***************************************************************************)
(* Model of the YAML-to-PostgreSQL loader of src/load_data.py.             *)
(*                                                                         *)
(* main() opens one psycopg2 connection, lists the YAML files and calls    *)
(* load_yaml_file(filepath, conn) for each of them inside try/except.      *)
(* load_yaml_file issues its statements on the shared connection and ends  *)
(* with conn.commit().  The model keeps the store as the session sees it   *)
(* (pending: committed rows plus the open transaction's writes) beside the *)
(* committed store that any other reader sees.                             *)
(***************************************************************************)
EXTENDS Integers, Sequences, FiniteSets, TLC

\* ------------------------------------------------------------------ bounds
MaxDocs  == 2   \* files in the yaml directory
MaxCast  == 2   \* names in metadata.cast
MaxSongs == 2   \* names in songs_order
MaxKeys  == 2   \* entries of one language block

\* SQL NULL (the song_id of a movie-level commentary row); identities are >= 1
NULL == 0

MovieNames == {"M1", "M2"}
CastNames  == {"A", "B"}
SongNames  == {"S1", "S2"}
Languages  == <<"Hindi", "English">>

SeqUpTo(S, n) == UNION {[1..k -> S] : k \in 0..n}

DistinctSeqs(S, n) ==
  {s \in SeqUpTo(S, n) : \A a, b \in DOMAIN s : s[a] = s[b] => a = b}

Range(s) == {s[k] : k \in DOMAIN s}

\* ------------------------------------------------------------- documents
\* One parsed YAML document (the `data` of load_yaml_file).  release_date is
\* "ok" when strptime accepts it; has_songs_order is FALSE when the key is
\* absent; commentaries is the ordered mapping language -> block, a block
\* being the ordered keys of its entries.
Doc(m, date, attrs, cast, hasSongs, songs, comm) ==
  [movie_name |-> m, release_date |-> date, director |-> attrs,
   cast |-> cast, has_songs_order |-> hasSongs, songs_order |-> songs,
   commentary_type |-> "long", commentaries |-> comm]

\* The text of the entry `key` of the block of `language`: one distinct text
\* per entry, so that a row's text tells which entry it was made from.
Text(language, key) == <<language, key>>

Block(language, keys) == [language |-> language, entries |-> keys]

\* ----------------------------------------------------------------- store
EmptyDb ==
  [movies |-> <<>>, cast_members |-> <<>>, movie_cast |-> <<>>,
   songs |-> <<>>, commentaries |-> <<>>]

EmptySeq == [movies |-> 0, cast_members |-> 0, songs |-> 0, commentaries |-> 0]

\* The next value of a table's identity sequence
NextVal(s, table) == s[table] + 1

\* The name of one stored row: its table and its key
RowId(table, a, b) == <<table, a, b>>

Count(table, P(_)) == Len(SelectSeq(table, P))

Some(table, P(_)) == \E k \in DOMAIN table : P(table[k])

First(table, P(_)) == table[CHOOSE k \in DOMAIN table : P(table[k])]

VARIABLES
  yaml_files,    \* main: the files found by glob, in processing order
  idx,           \* main: position of the for loop in yaml_files
  pc,            \* where the program stands
  movie_id,      \* load_yaml_file: the resolved movie identity (NULL before)
  i,             \* load_yaml_file: position of the current for loop
  song_mapping,  \* load_yaml_file: ordered dict song name -> song_id
  tx,            \* transaction status of conn: IDLE, INTRANS or INERROR
  connected,     \* conn is usable (the store is reachable, conn not closed)
  committed,     \* the store's committed rows
  pending,       \* the rows the session sees: committed plus its open writes
  seq,           \* the identity sequences of the store
  outcome,       \* stdout, one entry per finished file: result and printed ID
  finalMessage,  \* stdout, the closing banner of main
  written,       \* rows inserted by the attempt in progress
  failedRows     \* rows inserted by attempts that raised

vars == <<yaml_files, idx, pc, movie_id, i, song_mapping, tx, connected,
          committed, pending, seq, outcome, finalMessage, written, failedRows>>

data == yaml_files[idx]

\* ---------------------------------------------------------------- schema
\* The uniqueness constraints of the tables: movies(movie_name),
\* cast_members(cast_name), movie_cast(movie_id, cast_id) and
\* songs(movie_id, song_name).
MovieNameTaken(db, name) ==
  Some(db.movies, LAMBDA r : r.movie_name = name)

CastNameTaken(db, name) ==
  Some(db.cast_members, LAMBDA r : r.cast_name = name)

MovieCastTaken(db, mid, cid) ==
  Some(db.movie_cast, LAMBDA r : r.movie_id = mid /\ r.cast_id = cid)

SongTaken(db, mid, name) ==
  Some(db.songs, LAMBDA r : r.movie_id = mid /\ r.song_name = name)

\* ------------------------------------------------------------ statements
\* Variant of InsertMovie: a plain INSERT, without the ON CONFLICT clause; on
\* a taken name the store answers with a unique violation.
InsertMoviePlain(db, s, d) ==
  LET id == NextVal(s, "movies") IN
  IF MovieNameTaken(db, d.movie_name)
  THEN [db |-> db, seq |-> [s EXCEPT !.movies = id], returning |-> NULL,
        error |-> "UniqueViolation"]
  ELSE [db |-> [db EXCEPT !.movies = Append(@,
                  [movie_id |-> id, movie_name |-> d.movie_name,
                   release_date |-> d.release_date, director |-> d.director])],
        seq |-> [s EXCEPT !.movies = id], returning |-> id, error |-> "none"]

\* Variant of InsertMovie: ON CONFLICT (movie_name) DO UPDATE SET the
\* attributes to the new values, returning the stored row's identity
InsertMovieUpdating(db, s, d) ==
  LET id == NextVal(s, "movies") IN
  IF MovieNameTaken(db, d.movie_name)
  THEN LET k == CHOOSE k \in DOMAIN db.movies :
                  db.movies[k].movie_name = d.movie_name
       IN [db |-> [db EXCEPT !.movies[k].release_date = d.release_date,
                             !.movies[k].director = d.director],
           seq |-> [s EXCEPT !.movies = id],
           returning |-> db.movies[k].movie_id, error |-> "none"]
  ELSE [db |-> [db EXCEPT !.movies = Append(@,
                  [movie_id |-> id, movie_name |-> d.movie_name,
                   release_date |-> d.release_date, director |-> d.director])],
        seq |-> [s EXCEPT !.movies = id], returning |-> id, error |-> "none"]

\* INSERT INTO movies (...) VALUES (...) ON CONFLICT DO NOTHING
\*   RETURNING movie_id
\* No row is returned when the name is taken.  The identity is drawn from the
\* sequence before the conflict is seen.
InsertMovie(db, s, d) ==
  LET id == NextVal(s, "movies") IN
  IF MovieNameTaken(db, d.movie_name)
  THEN [db |-> db, seq |-> [s EXCEPT !.movies = id], returning |-> NULL,
        error |-> "none"]
  ELSE [db |-> [db EXCEPT !.movies = Append(@,
                  [movie_id |-> id, movie_name |-> d.movie_name,
                   release_date |-> d.release_date, director |-> d.director])],
        seq |-> [s EXCEPT !.movies = id], returning |-> id, error |-> "none"]

\* SELECT movie_id FROM movies WHERE movie_name = %s
SelectMovieId(db, name) ==
  First(db.movies, LAMBDA r : r.movie_name = name).movie_id

\* INSERT INTO cast_members (cast_name) ... ON CONFLICT DO NOTHING
InsertCastMember(db, s, name) ==
  LET id == NextVal(s, "cast_members") IN
  IF CastNameTaken(db, name)
  THEN [db |-> db, seq |-> [s EXCEPT !.cast_members = id], inserted |-> NULL]
  ELSE [db |-> [db EXCEPT !.cast_members = Append(@,
                  [cast_id |-> id, cast_name |-> name])],
        seq |-> [s EXCEPT !.cast_members = id], inserted |-> id]

\* SELECT cast_id FROM cast_members WHERE cast_name = %s
SelectCastId(db, name) ==
  First(db.cast_members, LAMBDA r : r.cast_name = name).cast_id

\* Variant of InsertMovieCast: the conflict is taken on cast_id alone
InsertMovieCastByCastOnly(db, mid, cid) ==
  IF Some(db.movie_cast, LAMBDA r : r.cast_id = cid)
  THEN db
  ELSE [db EXCEPT !.movie_cast = Append(@, [movie_id |-> mid, cast_id |-> cid])]

\* INSERT INTO movie_cast (movie_id, cast_id) ... ON CONFLICT DO NOTHING
InsertMovieCast(db, mid, cid) ==
  IF MovieCastTaken(db, mid, cid)
  THEN db
  ELSE [db EXCEPT !.movie_cast = Append(@, [movie_id |-> mid, cast_id |-> cid])]

\* Variant of UpsertSong: on conflict the stored ordinal is kept
UpsertSongKeepOrder(db, s, mid, name, ord) ==
  LET id == NextVal(s, "songs") IN
  IF SongTaken(db, mid, name)
  THEN [db |-> db, seq |-> [s EXCEPT !.songs = id],
        returning |-> First(db.songs,
            LAMBDA r : r.movie_id = mid /\ r.song_name = name).song_id,
        inserted |-> FALSE]
  ELSE [db |-> [db EXCEPT !.songs = Append(@,
                  [song_id |-> id, movie_id |-> mid, song_name |-> name,
                   song_order |-> ord])],
        seq |-> [s EXCEPT !.songs = id], returning |-> id, inserted |-> TRUE]

\* Variant of UpsertSong: on conflict the identity drawn from the sequence is
\* returned in place of the stored row's
UpsertSongReturnsDrawnId(db, s, mid, name, ord) ==
  LET id == NextVal(s, "songs") IN
  IF SongTaken(db, mid, name)
  THEN LET k == CHOOSE k \in DOMAIN db.songs :
                  db.songs[k].movie_id = mid /\ db.songs[k].song_name = name
       IN [db |-> [db EXCEPT !.songs[k].song_order = ord],
           seq |-> [s EXCEPT !.songs = id],
           returning |-> id, inserted |-> FALSE]
  ELSE [db |-> [db EXCEPT !.songs = Append(@,
                  [song_id |-> id, movie_id |-> mid, song_name |-> name,
                   song_order |-> ord])],
        seq |-> [s EXCEPT !.songs = id], returning |-> id, inserted |-> TRUE]

\* Variant of UpsertSong: on conflict the stored row is replaced by a new
\* row with a new identity
UpsertSongReplace(db, s, mid, name, ord) ==
  LET id == NextVal(s, "songs")
      kept == SelectSeq(db.songs,
                LAMBDA r : ~(r.movie_id = mid /\ r.song_name = name))
  IN [db |-> [db EXCEPT !.songs = Append(kept,
                [song_id |-> id, movie_id |-> mid, song_name |-> name,
                 song_order |-> ord])],
      seq |-> [s EXCEPT !.songs = id], returning |-> id,
      inserted |-> ~SongTaken(db, mid, name)]

\* Variant of UpsertSong: the first song of a list replaces the movie's
\* stored song list, as if DELETE FROM songs WHERE movie_id = %s came first
UpsertSongFreshList(db, s, mid, name, ord) ==
  LET id == NextVal(s, "songs")
      kept == IF ord = 1
              THEN SelectSeq(db.songs, LAMBDA r : r.movie_id # mid)
              ELSE db.songs
      had == Some(kept, LAMBDA r : r.movie_id = mid /\ r.song_name = name)
  IN IF had
     THEN LET k == CHOOSE k \in DOMAIN kept :
                     kept[k].movie_id = mid /\ kept[k].song_name = name
          IN [db |-> [db EXCEPT !.songs = [kept EXCEPT ![k].song_order = ord]],
              seq |-> [s EXCEPT !.songs = id],
              returning |-> kept[k].song_id, inserted |-> FALSE]
     ELSE [db |-> [db EXCEPT !.songs = Append(kept,
                     [song_id |-> id, movie_id |-> mid, song_name |-> name,
                      song_order |-> ord])],
           seq |-> [s EXCEPT !.songs = id], returning |-> id, inserted |-> TRUE]

\* INSERT INTO songs ... ON CONFLICT (movie_id, song_name)
\*   DO UPDATE SET song_order = EXCLUDED.song_order RETURNING song_id
UpsertSong(db, s, mid, name, ord) ==
  LET id == NextVal(s, "songs") IN
  IF SongTaken(db, mid, name)
  THEN LET k == CHOOSE k \in DOMAIN db.songs :
                  db.songs[k].movie_id = mid /\ db.songs[k].song_name = name
       IN [db |-> [db EXCEPT !.songs[k].song_order = ord],
           seq |-> [s EXCEPT !.songs = id],
           returning |-> db.songs[k].song_id, inserted |-> FALSE]
  ELSE [db |-> [db EXCEPT !.songs = Append(@,
                  [song_id |-> id, movie_id |-> mid, song_name |-> name,
                   song_order |-> ord])],
        seq |-> [s EXCEPT !.songs = id], returning |-> id, inserted |-> TRUE]

\* INSERT INTO commentaries (movie_id, song_id, commentary_type, language,
\*                           commentary_text) VALUES (...)
InsertCommentary(db, s, mid, sid, type, language, text) ==
  LET id == NextVal(s, "commentaries") IN
  [db |-> [db EXCEPT !.commentaries = Append(@,
             [commentary_id |-> id, movie_id |-> mid, song_id |-> sid,
              commentary_type |-> type, language |-> language,
              commentary_text |-> text])],
   seq |-> [s EXCEPT !.commentaries = id], inserted |-> id]

\* Variant of DictSet: the mapping is started anew at every song, as if
\* song_mapping = {} stood inside the loop
DictSetAnew(m, name, id) == <<[name |-> name, id |-> id]>>

\* song_mapping[song_name] = song_id on an ordered dict: a known key keeps
\* its place, a new key goes last.
DictSet(m, name, id) ==
  IF \E k \in DOMAIN m : m[k].name = name
  THEN [k \in DOMAIN m |-> IF m[k].name = name THEN [m[k] EXCEPT !.id = id]
                           ELSE m[k]]
  ELSE Append(m, [name |-> name, id |-> id])

\* for song_name, song_id in song_mapping.items():
\*     if song_name in commentary_data: INSERT INTO commentaries ...
\* from position k of the mapping on; st = [db, seq, written].
RECURSIVE SongCommentaries(_, _, _, _, _, _)
SongCommentaries(st, mid, type, block, m, k) ==
  IF k > Len(m) THEN st
  ELSE IF m[k].name \in Range(block.entries)
  THEN LET r == InsertCommentary(st.db, st.seq, mid, m[k].id, type,
                   block.language, Text(block.language, m[k].name))
       IN SongCommentaries(
            [db |-> r.db, seq |-> r.seq,
             written |-> st.written \cup {RowId("commentaries", r.inserted, NULL)}],
            mid, type, block, m, k + 1)
  ELSE SongCommentaries(st, mid, type, block, m, k + 1)

\* Variant of CommentaryBlock: the last key of the block is taken for the
\* movie commentary
CommentaryBlockLastKey(db, s, w, mid, type, block, m) ==
  LET movie_commentary_key == block.entries[Len(block.entries)]
      r == InsertCommentary(db, s, mid, NULL, type, block.language,
                            Text(block.language, movie_commentary_key))
  IN SongCommentaries(
       [db |-> r.db, seq |-> r.seq,
        written |-> w \cup {RowId("commentaries", r.inserted, NULL)}],
       mid, type, block, m, 1)

\* One pass of the loop over data['commentaries'].items(), for a block with
\* at least one entry: the first key's text goes in with song_id NULL, then
\* the song rows.
CommentaryBlock(db, s, w, mid, type, block, m) ==
  LET movie_commentary_key == block.entries[1]
      r == InsertCommentary(db, s, mid, NULL, type, block.language,
                            Text(block.language, movie_commentary_key))
  IN SongCommentaries(
       [db |-> r.db, seq |-> r.seq,
        written |-> w \cup {RowId("commentaries", r.inserted, NULL)}],
       mid, type, block, m, 1)

\* ------------------------------------------------------------- the batch
\* What the store may do to a statement: run it, reject it (an error of the
\* store, which leaves the transaction aborted) or lose the connection.
Faults == {"none", "reject", "disconnect"}

\* The exception cur.execute raises, "none" when the statement runs
ExecError(fault) ==
  IF tx = "INERROR" THEN "InFailedSqlTransaction"
  ELSE IF fault = "disconnect" THEN "OperationalError"
  ELSE IF fault = "reject" THEN "IntegrityError"
  ELSE "none"

\* main's handler, `except Exception as e: print(...)`, then the next file.
\* load_yaml_file has no handler of its own and main issues no rollback:
\* the transaction is left as the failing statement left it.
Except(e) ==
  /\ outcome' = Append(outcome, [result |-> e, movie_id |-> movie_id])
  /\ failedRows' = failedRows \cup written
  /\ written' = {}
  /\ idx' = idx + 1
  /\ pc' = "main"
  /\ movie_id' = NULL
  /\ i' = 1
  /\ song_mapping' = <<>>
  /\ UNCHANGED <<yaml_files, committed, finalMessage>>

\* A statement that raised e: a lost connection drops the open transaction
\* and closes conn, any other error of the store aborts the transaction.
ExecFailed(e) ==
  /\ Except(e)
  /\ IF e = "OperationalError"
     THEN tx' = "IDLE" /\ connected' = FALSE /\ pending' = committed
     ELSE tx' = "INERROR" /\ UNCHANGED <<connected, pending>>
  /\ UNCHANGED seq

\* Variant of PythonError: the handler rolls the connection back
PythonErrorWithRollback(e) ==
  /\ Except(e)
  /\ tx' = "IDLE"
  /\ pending' = committed
  /\ UNCHANGED <<connected, seq>>

\* An exception raised by Python code, no statement involved
PythonError(e) ==
  /\ Except(e)
  /\ UNCHANGED <<tx, connected, pending, seq>>

\* for filepath in yaml_files: (a next file exists)
NextFile ==
  /\ pc = "main"
  /\ idx <= Len(yaml_files)
  /\ pc' = "load"
  /\ UNCHANGED <<yaml_files, idx, movie_id, i, song_mapping, tx, connected,
                 committed, pending, seq, outcome, finalMessage, written,
                 failedRows>>

\* conn.close() and the closing banner, after the last file.  Closing the
\* connection discards whatever the open transaction holds.
Finish ==
  /\ pc = "main"
  /\ idx > Len(yaml_files)
  /\ pc' = "done"
  /\ connected' = FALSE
  /\ tx' = "IDLE"
  /\ pending' = committed
  /\ finalMessage' = "All data loaded successfully!"
  /\ UNCHANGED <<yaml_files, idx, movie_id, i, song_mapping, committed, seq,
                 outcome, written, failedRows>>

\* yaml.safe_load, conn.cursor(), datetime.strptime
LoadYaml ==
  /\ pc = "load"
  /\ IF ~connected THEN PythonError("InterfaceError")
     ELSE IF data.release_date # "ok" THEN PythonError("ValueError")
     ELSE /\ pc' = "movie"
          /\ UNCHANGED <<yaml_files, idx, movie_id, i, song_mapping, tx,
                         connected, committed, pending, seq, outcome,
                         finalMessage, written, failedRows>>

\* Insert movie: the conditional INSERT, and the SELECT when it returned no row
ResolveMovie ==
  /\ pc = "movie"
  /\ \E fault \in Faults :
       LET e == ExecError(fault)
           r == InsertMovie(pending, seq, data)
       IN IF e # "none" THEN ExecFailed(e)
          ELSE IF r.error # "none"
          THEN /\ Except(r.error)
               /\ tx' = "INERROR"
               /\ seq' = r.seq
               /\ UNCHANGED <<connected, pending>>
          ELSE /\ pending' = r.db
               /\ seq' = r.seq
               /\ tx' = "INTRANS"
               /\ movie_id' = IF r.returning # NULL THEN r.returning
                              ELSE SelectMovieId(r.db, data.movie_name)
               /\ written' = IF r.returning # NULL
                             THEN written \cup {RowId("movies", r.returning, NULL)}
                             ELSE written
               /\ pc' = "cast"
               /\ i' = 1
               /\ UNCHANGED <<yaml_files, idx, song_mapping, connected,
                              committed, outcome, finalMessage, failedRows>>

\* Insert cast: one pass of the loop over data['metadata']['cast'], or the
\* end of the loop and the lookup of data['songs_order']
ResolveCast ==
  /\ pc = "cast"
  /\ IF i > Len(data.cast)
     THEN IF ~data.has_songs_order THEN PythonError("KeyError")
          ELSE /\ pc' = "songs"
               /\ i' = 1
               /\ song_mapping' = <<>>
               /\ UNCHANGED <<yaml_files, idx, movie_id, tx, connected,
                              committed, pending, seq, outcome, finalMessage,
                              written, failedRows>>
     ELSE \E fault \in Faults :
       LET e == ExecError(fault)
           cast_name == data.cast[i]
           r == InsertCastMember(pending, seq, cast_name)
           cast_id == SelectCastId(r.db, cast_name)
           had == MovieCastTaken(r.db, movie_id, cast_id)
           db2 == InsertMovieCast(r.db, movie_id, cast_id)
       IN IF e # "none" THEN ExecFailed(e)
          ELSE /\ pending' = db2
               /\ seq' = r.seq
               /\ written' = written
                    \cup (IF r.inserted # NULL
                          THEN {RowId("cast_members", r.inserted, NULL)} ELSE {})
                    \cup (IF Len(db2.movie_cast) > Len(r.db.movie_cast)
                          THEN {RowId("movie_cast", movie_id, cast_id)} ELSE {})
               /\ i' = i + 1
               /\ UNCHANGED <<yaml_files, idx, pc, movie_id, song_mapping, tx,
                              connected, committed, outcome, finalMessage,
                              failedRows>>

\* Insert songs: one pass of the loop over enumerate(data['songs_order'],
\* start=1), or the end of the loop
ResolveSongs ==
  /\ pc = "songs"
  /\ IF i > Len(data.songs_order)
     THEN /\ pc' = "commentaries"
          /\ i' = 1
          /\ UNCHANGED <<yaml_files, idx, movie_id, song_mapping, tx, connected,
                         committed, pending, seq, outcome, finalMessage,
                         written, failedRows>>
     ELSE \E fault \in Faults :
       LET e == ExecError(fault)
           song_name == data.songs_order[i]
           r == UpsertSong(pending, seq, movie_id, song_name, i)
       IN IF e # "none" THEN ExecFailed(e)
          ELSE /\ pending' = r.db
               /\ seq' = r.seq
               /\ song_mapping' = DictSet(song_mapping, song_name, r.returning)
               /\ written' = IF r.inserted
                             THEN written \cup {RowId("songs", r.returning, NULL)}
                             ELSE written
               /\ i' = i + 1
               /\ UNCHANGED <<yaml_files, idx, pc, movie_id, tx, connected,
                              committed, outcome, finalMessage, failedRows>>

\* Insert commentaries: one pass of the loop over
\* data['commentaries'].items(), or the end of the loop
InsertCommentaries ==
  /\ pc = "commentaries"
  /\ IF i > Len(data.commentaries)
     THEN /\ pc' = "commit"
          /\ UNCHANGED <<yaml_files, idx, movie_id, i, song_mapping, tx,
                         connected, committed, pending, seq, outcome,
                         finalMessage, written, failedRows>>
     ELSE IF data.commentaries[i].entries = <<>>
     THEN PythonError("IndexError")
     ELSE \E fault \in Faults :
       LET e == ExecError(fault)
           st == CommentaryBlock(pending, seq, written, movie_id,
                                 data.commentary_type, data.commentaries[i],
                                 song_mapping)
       IN IF e # "none" THEN ExecFailed(e)
          ELSE /\ pending' = st.db
               /\ seq' = st.seq
               /\ written' = st.written
               /\ i' = i + 1
               /\ UNCHANGED <<yaml_files, idx, pc, movie_id, song_mapping, tx,
                              connected, committed, outcome, finalMessage,
                              failedRows>>

\* conn.commit(); cur.close(); and back to main's loop
Commit ==
  /\ pc = "commit"
  /\ \E fault \in {"none", "disconnect"} :
       IF fault = "disconnect" THEN ExecFailed("OperationalError")
       ELSE /\ committed' = pending
            /\ tx' = "IDLE"
            /\ outcome' = Append(outcome, [result |-> "ok", movie_id |-> movie_id])
            /\ written' = {}
            /\ idx' = idx + 1
            /\ pc' = "main"
            /\ movie_id' = NULL
            /\ i' = 1
            /\ song_mapping' = <<>>
            /\ UNCHANGED <<yaml_files, connected, pending, seq, finalMessage,
                           failedRows>>

Next ==
  \/ NextFile
  \/ LoadYaml
  \/ ResolveMovie
  \/ ResolveCast
  \/ ResolveSongs
  \/ InsertCommentaries
  \/ Commit
  \/ Finish

\* --------------------------------------------------- the files of a batch
\* A well-formed document of movie m with the given cast, songs and blocks
GoodDoc(m, cast, songs, comm) == Doc(m, "ok", "d1", cast, TRUE, songs, comm)

\* Documents that differ in how far load_yaml_file gets: a well-formed one,
\* one with a malformed date, one without songs_order (it raises after the
\* movie and cast writes) and one with an empty language block (it raises
\* after the movie, cast and song writes).
BatchDocs ==
  UNION {
    { GoodDoc(m, <<"A">>, <<"S1">>, <<Block("Hindi", <<m, "S1">>)>>),
      Doc(m, "bad", "d1", <<"A">>, TRUE, <<"S1">>, <<Block("Hindi", <<m>>)>>),
      Doc(m, "ok", "d1", <<"A">>, FALSE, <<>>, <<Block("Hindi", <<m>>)>>),
      GoodDoc(m, <<"B">>, <<"S1">>, <<Block("Hindi", <<>>)>>) }
    : m \in MovieNames }

\* Documents that differ in their cast list
CastDocs ==
  { GoodDoc(m, cast, <<"S1">>, <<Block("Hindi", <<m>>)>>)
    : m \in MovieNames, cast \in SeqUpTo(CastNames, MaxCast) }

\* Documents that differ in their song list; the one with an empty language
\* block raises after its song writes
SongDocs ==
  { GoodDoc(m, <<"A">>, songs, <<Block("Hindi", <<m>>)>>)
    : m \in MovieNames, songs \in SeqUpTo(SongNames, MaxSongs) }
  \cup { GoodDoc("M1", <<"A">>, <<"S2", "S1">>, <<Block("Hindi", <<>>)>>) }

\* Documents of one movie that differ in the keys of their language blocks
\* and in their order: the movie's name, a song of the list, a song that is
\* not in the list; in one language or the same block in two.
CommentaryKeys == {"M1", "S1", "X"}

CommentaryDocs ==
  { GoodDoc("M1", <<"A">>, <<"S1">>, <<Block(Languages[1], keys)>>)
    : keys \in DistinctSeqs(CommentaryKeys, MaxKeys) }
  \cup
  { GoodDoc("M1", <<"A">>, <<"S1">>,
            <<Block(Languages[1], keys), Block(Languages[2], keys)>>)
    : keys \in DistinctSeqs(CommentaryKeys, MaxKeys) }

\* Documents that differ in the attributes of the movie (director stands for
\* release date, director, producer, music director and lyricist); the ones
\* with an empty language block raise after their writes
Directors == {"d1", "d2"}

AttrDocs ==
  { Doc(m, "ok", d, <<"A">>, TRUE, <<"S1">>,
        <<Block("Hindi", IF empty THEN <<>> ELSE <<m>>)>>)
    : m \in MovieNames, d \in Directors, empty \in BOOLEAN }

\* The state after psycopg2.connect and glob, on a store with empty tables
InitWith(docs) ==
  /\ yaml_files \in SeqUpTo(docs, MaxDocs)
  /\ idx = 1
  /\ pc = "main"
  /\ movie_id = NULL
  /\ i = 1
  /\ song_mapping = <<>>
  /\ tx = "IDLE"
  /\ connected = TRUE
  /\ committed = EmptyDb
  /\ pending = EmptyDb
  /\ seq = EmptySeq
  /\ outcome = <<>>
  /\ finalMessage = ""
  /\ written = {}
  /\ failedRows = {}

Init == InitWith(BatchDocs)

InitCast == InitWith(CastDocs)

InitSongs == InitWith(SongDocs)

InitCommentary == InitWith(CommentaryDocs)

InitAttrs == InitWith(AttrDocs)

Spec == Init /\ [][Next]_vars

SpecCast == InitCast /\ [][Next]_vars

SpecSongs == InitSongs /\ [][Next]_vars

SpecCommentary == InitCommentary /\ [][Next]_vars

SpecAttrs == InitAttrs /\ [][Next]_vars

\* ----------------------------------------------------------- properties
\* The names of the rows a store state holds
RowsOf(db) ==
  {RowId("movies", db.movies[k].movie_id, NULL) : k \in DOMAIN db.movies}
  \cup {RowId("cast_members", db.cast_members[k].cast_id, NULL)
        : k \in DOMAIN db.cast_members}
  \cup {RowId("movie_cast", db.movie_cast[k].movie_id, db.movie_cast[k].cast_id)
        : k \in DOMAIN db.movie_cast}
  \cup {RowId("songs", db.songs[k].song_id, NULL) : k \in DOMAIN db.songs}
  \cup {RowId("commentaries", db.commentaries[k].commentary_id, NULL)
        : k \in DOMAIN db.commentaries}

\* Errors that come from the document being loaded or from the store
\* rejecting one of its statements
DocumentErrors == {"ValueError", "KeyError", "IndexError", "IntegrityError"}

\* Errors of a store that cannot be reached or a connection that is closed
ConnectivityErrors == {"OperationalError", "InterfaceError"}

\* The document has nothing that makes load_yaml_file raise by itself
WellFormed(d) ==
  /\ d.release_date = "ok"
  /\ d.has_songs_order
  /\ \A k \in DOMAIN d.commentaries : d.commentaries[k].entries # <<>>

\* The last file handled was committed and main stands between two files
JustCommitted ==
  /\ pc = "main"
  /\ outcome # <<>>
  /\ outcome[Len(outcome)].result = "ok"

\* C1 (transactional atomicity): no row inserted by an attempt of
\* load_yaml_file that raised is ever part of the committed store, also not
\* after later files of the batch commit on the shared connection.
C1_FailedDocumentLeavesNoRow == failedRows \cap RowsOf(committed) = {}

\* C2 (failure isolation): after files that failed with a parse error or an
\* error of the store on one of their statements, a later well-formed file
\* is still ingested: it commits, or fails on a fault of its own statement,
\* and never because of the earlier failure.
C2_FailureDoesNotSpread ==
  \A j \in DOMAIN outcome :
    ( /\ WellFormed(yaml_files[j])
      /\ \E k \in 1..(j - 1) : outcome[k].result \in DocumentErrors
      /\ \A k \in 1..(j - 1) : outcome[k].result \in DocumentErrors \cup {"ok"} )
    => outcome[j].result \in {"ok", "IntegrityError", "OperationalError"}

\* C3 (movie uniqueness): the store never holds two movies rows of one name;
\* every committed file's movie name has exactly one row, whose identity is
\* the one that file resolved; no file fails with a unique violation; and
\* all files of one movie name that resolved an identity resolved the same.
C3_MovieUniqueness ==
  /\ \A db \in {committed, pending} : \A a, b \in DOMAIN db.movies :
       db.movies[a].movie_name = db.movies[b].movie_name => a = b
  /\ \A j \in DOMAIN outcome : outcome[j].result = "ok" =>
       /\ Count(committed.movies,
                LAMBDA r : r.movie_name = yaml_files[j].movie_name) = 1
       /\ SelectMovieId(committed, yaml_files[j].movie_name) = outcome[j].movie_id
  /\ \A j \in DOMAIN outcome : outcome[j].result # "UniqueViolation"
  /\ \A j, k \in DOMAIN outcome :
       ( /\ yaml_files[j].movie_name = yaml_files[k].movie_name
         /\ outcome[j].movie_id # NULL
         /\ outcome[k].movie_id # NULL )
       => outcome[j].movie_id = outcome[k].movie_id

\* C3 witness: the same movie name was ingested and committed twice and the
\* store holds one movies row
C3_Witness ==
  /\ Len(outcome) = 2
  /\ outcome[1].result = "ok" /\ outcome[2].result = "ok"
  /\ yaml_files[1].movie_name = yaml_files[2].movie_name
  /\ Len(committed.movies) = 1

\* C4 (cast sharing): the committed store never holds two cast_members rows
\* of one name nor two movie_cast rows of one pair, and for every committed
\* file each name of its cast list has exactly one cast_members row and
\* exactly one movie_cast row joining it to the file's movie.
C4_CastSharing ==
  /\ \A a, b \in DOMAIN committed.cast_members :
       committed.cast_members[a].cast_name = committed.cast_members[b].cast_name
       => a = b
  /\ \A a, b \in DOMAIN committed.movie_cast :
       committed.movie_cast[a] = committed.movie_cast[b] => a = b
  /\ \A j \in DOMAIN outcome : outcome[j].result = "ok" =>
       \A c \in Range(yaml_files[j].cast) :
         /\ Count(committed.cast_members, LAMBDA r : r.cast_name = c) = 1
         /\ Count(committed.movie_cast,
                  LAMBDA r : /\ r.movie_id = outcome[j].movie_id
                             /\ r.cast_id = SelectCastId(committed, c)) = 1

\* C4 witness: two committed files of different movies list the same single
\* name; one cast_members row and two movie_cast rows
C4_Witness ==
  /\ Len(outcome) = 2
  /\ outcome[1].result = "ok" /\ outcome[2].result = "ok"
  /\ yaml_files[1].movie_name # yaml_files[2].movie_name
  /\ yaml_files[1].cast = <<"A">> /\ yaml_files[2].cast = <<"A">>
  /\ Len(committed.cast_members) = 1
  /\ Len(committed.movie_cast) = 2

\* The positions of name in the song list
Positions(songs, name) == {p \in DOMAIN songs : songs[p] = name}

Max(S) == CHOOSE x \in S : \A y \in S : y <= x

\* C5 as stated (song ordinal overwrite): right after a file commits, every
\* song named in its song list has exactly one songs row for the movie and
\* that row's ordinal is the song's position in the list, for every position
\* where the list names it.
C5_OrdinalIsPosition ==
  JustCommitted =>
    LET d == yaml_files[Len(outcome)]
        mid == outcome[Len(outcome)].movie_id
    IN \A p \in DOMAIN d.songs_order :
         /\ Count(committed.songs, LAMBDA r : /\ r.movie_id = mid
                     /\ r.song_name = d.songs_order[p]) = 1
         /\ First(committed.songs, LAMBDA r : /\ r.movie_id = mid
                     /\ r.song_name = d.songs_order[p]).song_order = p

\* C5 amended: the committed store never holds two songs rows of one
\* (movie, song name), and right after a file commits every song named in
\* its song list has exactly one songs row for the movie, whose ordinal is
\* the position of the song's last occurrence in the list.
C5_OrdinalIsLastPosition ==
  /\ \A a, b \in DOMAIN committed.songs :
       ( /\ committed.songs[a].movie_id = committed.songs[b].movie_id
         /\ committed.songs[a].song_name = committed.songs[b].song_name )
       => a = b
  /\ JustCommitted =>
       LET d == yaml_files[Len(outcome)]
           mid == outcome[Len(outcome)].movie_id
       IN \A name \in Range(d.songs_order) :
            /\ Count(committed.songs, LAMBDA r : /\ r.movie_id = mid
                        /\ r.song_name = name) = 1
            /\ First(committed.songs, LAMBDA r : /\ r.movie_id = mid
                        /\ r.song_name = name).song_order
                 = Max(Positions(d.songs_order, name))

\* C5 witness: a movie was committed with the songs S1, S2 and then again
\* with S2, S1; the ordinals now are those of the second list
C5_Witness ==
  /\ JustCommitted
  /\ Len(outcome) = 2
  /\ outcome[1].result = "ok"
  /\ yaml_files[1].movie_name = yaml_files[2].movie_name
  /\ yaml_files[1].songs_order = <<"S1", "S2">>
  /\ yaml_files[2].songs_order = <<"S2", "S1">>
  /\ \E k \in DOMAIN committed.songs :
       committed.songs[k].song_name = "S2" /\ committed.songs[k].song_order = 1

\* The key designates the movie itself / names a song of the song list
IsMovieKey(d, key) == key = d.movie_name

IsListedSong(d, key) == key \in Range(d.songs_order)

\* The commentaries rows the attempt in progress has inserted
WrittenCommentaries ==
  SelectSeq(pending.commentaries,
            LAMBDA r : RowId("commentaries", r.commentary_id, NULL) \in written)

\* C6 (row count): when load_yaml_file reaches its commit, every entry of
\* every language block whose key is the movie's or a listed song's has
\* exactly one commentaries row inserted by this ingestion, whatever the
\* order of the keys.
C6_OneRowPerEntry ==
  pc = "commit" =>
    \A b \in DOMAIN data.commentaries :
      \A key \in Range(data.commentaries[b].entries) :
        (IsMovieKey(data, key) \/ IsListedSong(data, key)) =>
          Count(WrittenCommentaries,
                LAMBDA r : /\ r.language = data.commentaries[b].language
                           /\ r.commentary_text
                                = Text(data.commentaries[b].language, key)) = 1

\* C7 (attribution): when load_yaml_file reaches its commit, every
\* commentaries row this ingestion inserted with a NULL song reference
\* carries the text of an entry whose key designates the movie, and every
\* other row it inserted references the song of this movie named by the key
\* of the entry whose text it carries.
C7_RowsAttributedByKey ==
  pc = "commit" =>
    \A k \in DOMAIN WrittenCommentaries :
      LET r == WrittenCommentaries[k]
          key == r.commentary_text[2]
      IN IF r.song_id = NULL
         THEN IsMovieKey(data, key)
         ELSE Some(pending.songs, LAMBDA sg : /\ sg.song_id = r.song_id
                                              /\ sg.movie_id = movie_id
                                              /\ sg.song_name = key)

\* C8 (append-only): when every file handled so far is the same document and
\* each of them committed, the store holds as many commentaries rows for
\* each (language, key) of the document, key being the movie's or a listed
\* song's, as there were ingestions.
C8_RowsPerIngestion ==
  ( /\ pc = "main"
    /\ outcome # <<>>
    /\ \A j \in DOMAIN outcome :
         yaml_files[j] = yaml_files[1] /\ outcome[j].result = "ok" )
  => LET d == yaml_files[1] IN
     \A b \in DOMAIN d.commentaries :
       \A key \in Range(d.commentaries[b].entries) :
         (IsMovieKey(d, key) \/ IsListedSong(d, key)) =>
           Count(committed.commentaries,
                 LAMBDA r : /\ r.language = d.commentaries[b].language
                            /\ r.commentary_text
                                 = Text(d.commentaries[b].language, key))
             = Len(outcome)

\* C9 (connectivity errors abort the batch): once a file has failed with a
\* connectivity error it is the last file load_yaml_file is called for.
C9_ConnectivityErrorEndsBatch ==
  \A k \in DOMAIN outcome :
    outcome[k].result \in ConnectivityErrors =>
      Len(outcome) = k /\ pc \in {"main", "done"}

\* C10 (batch outcome report): when main has ended, the run is reported as
\* fully successful only if no file failed.
C10_SuccessOnlyWithoutFailures ==
  (pc = "done" /\ finalMessage = "All data loaded successfully!") =>
    \A k \in DOMAIN outcome : outcome[k].result = "ok"

\* Every reference of a store state points at a row of that state
ReferencesHold(db) ==
  /\ \A k \in DOMAIN db.songs :
       Some(db.movies, LAMBDA m : m.movie_id = db.songs[k].movie_id)
  /\ \A k \in DOMAIN db.movie_cast :
       /\ Some(db.movies, LAMBDA m : m.movie_id = db.movie_cast[k].movie_id)
       /\ Some(db.cast_members, LAMBDA c : c.cast_id = db.movie_cast[k].cast_id)
  /\ \A k \in DOMAIN db.commentaries :
       /\ Some(db.movies, LAMBDA m : m.movie_id = db.commentaries[k].movie_id)
       /\ db.commentaries[k].song_id # NULL =>
            Some(db.songs, LAMBDA sg :
                   /\ sg.song_id = db.commentaries[k].song_id
                   /\ sg.movie_id = db.commentaries[k].movie_id)

\* C11 (referential integrity): in every reachable state, in the committed
\* store and in the store as the session sees it, every songs and
\* commentaries row references an existing movie, every movie_cast row an
\* existing movie and cast member, and every commentaries row with a song
\* reference a song of the same movie.
C11_ReferentialIntegrity == ReferencesHold(committed) /\ ReferencesHold(pending)

\* C11 witness: two movies are committed, each with a cast association, a
\* song and a commentaries row that references the song
C11_Witness ==
  /\ Len(committed.movies) = 2
  /\ Len(committed.movie_cast) = 2
  /\ \A m \in DOMAIN committed.movies :
       Some(committed.commentaries, LAMBDA r :
              /\ r.movie_id = committed.movies[m].movie_id
              /\ r.song_id # NULL)

\* C12 (unmatched keys are skipped): a file with an entry whose key is
\* neither the movie's nor a listed song's does not fail because of it, and
\* when load_yaml_file reaches its commit no commentaries row inserted by
\* this ingestion carries the text of such an entry, wherever the entry
\* stands in its block.
C12_UnmatchedKeyGivesNoRow ==
  pc = "commit" =>
    \A b \in DOMAIN data.commentaries :
      \A key \in Range(data.commentaries[b].entries) :
        ~(IsMovieKey(data, key) \/ IsListedSong(data, key)) =>
          Count(WrittenCommentaries,
                LAMBDA r : /\ r.language = data.commentaries[b].language
                           /\ r.commentary_text
                                = Text(data.commentaries[b].language, key)) = 0

\* C13 (movie rows are never mutated): no step changes or removes a movies
\* row, in the committed store or in the session's view of it while the
\* connection lasts; and every committed file's movie row carries the
\* identity that file resolved.  A file whose movie name exists with other
\* attributes therefore leaves the stored attributes and identity as they
\* were.
C13_MovieRowsNeverMutated ==
  [][ /\ \A k \in DOMAIN committed.movies :
           /\ k \in DOMAIN committed'.movies
           /\ committed'.movies[k] = committed.movies[k]
      /\ connected' =>
           \A k \in DOMAIN pending.movies :
             /\ k \in DOMAIN pending'.movies
             /\ pending'.movies[k] = pending.movies[k] ]_vars

\* C13 witness: a movie was committed with director d1, then a file of the
\* same name with director d2 was committed; the stored row still says d1
C13_Witness ==
  /\ JustCommitted
  /\ Len(outcome) = 2
  /\ outcome[1].result = "ok"
  /\ yaml_files[1].movie_name = yaml_files[2].movie_name
  /\ yaml_files[1].director = "d1"
  /\ yaml_files[2].director = "d2"
  /\ Len(committed.movies) = 1
  /\ committed.movies[1].director = "d1"
  /\ committed.movies[1].movie_id = outcome[2].movie_id

\* s is t or the beginning of t
IsPrefix(s, t) ==
  /\ Len(s) <= Len(t)
  /\ \A k \in DOMAIN s : t[k] = s[k]

\* The file being committed is the very document the previous file was, and
\* that one committed
SecondIngestion ==
  /\ pc = "commit"
  /\ idx > 1
  /\ yaml_files[idx] = yaml_files[idx - 1]
  /\ outcome[idx - 1].result = "ok"

\* C14 (idempotence on the reusable tables): the commit of an unchanged
\* document's second ingestion leaves the movies, cast_members, movie_cast
\* and songs tables exactly as the first ingestion committed them (rows,
\* identities, ordinals); the commentaries table keeps its rows and gains at
\* least one per language block.
C14_SecondIngestionChangesOnlyCommentaries ==
  [][ (SecondIngestion /\ committed' # committed) =>
        /\ committed'.movies = committed.movies
        /\ committed'.cast_members = committed.cast_members
        /\ committed'.movie_cast = committed.movie_cast
        /\ committed'.songs = committed.songs
        /\ IsPrefix(committed.commentaries, committed'.commentaries)
        /\ Len(committed'.commentaries)
             >= Len(committed.commentaries) + Len(data.commentaries) ]_vars

\* C14 witness: the document with the songs S2, S1 was committed twice in a
\* row; one row per table entry and twice the commentaries
C14_Witness ==
  /\ JustCommitted
  /\ Len(outcome) = 2
  /\ outcome[1].result = "ok"
  /\ yaml_files[1] = yaml_files[2]
  /\ yaml_files[1].songs_order = <<"S2", "S1">>
  /\ Len(committed.movies) = 1
  /\ Len(committed.songs) = 2
  /\ Len(committed.commentaries) = 2

\* The tables of the rows the attempt in progress has inserted
WrittenTables == {r[1] : r \in written}

\* C15 (step ordering within one document): nothing is written before the
\* movie step; from the cast step on the movie identity is resolved and is
\* that of the movies row of the document's name; no commentaries row is
\* inserted before the commentary step, and from that step on every song of
\* the document's list is in song_mapping with the identity of its songs
\* row for this movie.
C15_StepOrder ==
  /\ pc \in {"load", "movie"} => (written = {} /\ movie_id = NULL)
  /\ pc \in {"cast", "songs", "commentaries", "commit"} =>
       /\ movie_id # NULL
       /\ Some(pending.movies, LAMBDA m : /\ m.movie_id = movie_id
                                          /\ m.movie_name = data.movie_name)
  /\ pc \in {"cast", "songs"} => "commentaries" \notin WrittenTables
  /\ pc = "cast" => "songs" \notin WrittenTables
  /\ pc \in {"commentaries", "commit"} =>
       \A name \in Range(data.songs_order) :
         \E k \in DOMAIN song_mapping :
           /\ song_mapping[k].name = name
           /\ Some(pending.songs, LAMBDA sg : /\ sg.song_id = song_mapping[k].id
                                              /\ sg.movie_id = movie_id
                                              /\ sg.song_name = name)

\* C15 witness: the first commentaries row of a document with two songs has
\* been inserted and both songs are in song_mapping
C15_Witness ==
  /\ pc = "commit"
  /\ "commentaries" \in WrittenTables
  /\ data.songs_order = <<"S1", "S2">>
  /\ Len(song_mapping) = 2

\* A songs row but for its ordinal
SongButOrder(r) ==
  [song_id |-> r.song_id, movie_id |-> r.movie_id, song_name |-> r.song_name]

\* Every row of db is a row of db2, at the same place and unchanged; a songs
\* row may differ in its ordinal
RowsKept(db, db2) ==
  /\ IsPrefix(db.movies, db2.movies)
  /\ IsPrefix(db.cast_members, db2.cast_members)
  /\ IsPrefix(db.movie_cast, db2.movie_cast)
  /\ IsPrefix(db.commentaries, db2.commentaries)
  /\ Len(db.songs) <= Len(db2.songs)
  /\ \A k \in DOMAIN db.songs :
       SongButOrder(db2.songs[k]) = SongButOrder(db.songs[k])

\* C16 (no destruction): no step removes a row of any table, from the
\* committed store or, while the connection lasts, from the store as the
\* session sees it (closing or losing the connection drops only what was
\* never committed); and a songs row changes its ordinal only in the song
\* step of a document of its movie that names it, so a song absent from the
\* list being ingested keeps its row and its ordinal.
C16_NoDestruction ==
  [][ /\ RowsKept(committed, committed')
      /\ connected' =>
           /\ RowsKept(pending, pending')
           /\ \A k \in DOMAIN pending.songs :
                pending'.songs[k].song_order # pending.songs[k].song_order =>
                  /\ pc = "songs"
                  /\ i \in DOMAIN data.songs_order
                  /\ pending.songs[k].movie_id = movie_id
                  /\ pending.songs[k].song_name = data.songs_order[i] ]_vars

\* C16 witness: a movie was committed with the songs S1, S2 and then with
\* the song S1 alone; the row of S2 is still there with ordinal 2
C16_Witness ==
  /\ JustCommitted
  /\ Len(outcome) = 2
  /\ outcome[1].result = "ok"
  /\ yaml_files[1].movie_name = yaml_files[2].movie_name
  /\ yaml_files[1].songs_order = <<"S1", "S2">>
  /\ yaml_files[2].songs_order = <<"S1">>
  /\ Some(committed.songs, LAMBDA r : /\ r.movie_id = outcome[2].movie_id
                                      /\ r.song_name = "S2"
                                      /\ r.song_order = 2)

\* This step ends the handling of a file
FileEnds == Len(outcome') = Len(outcome) + 1

\* C17 (commit discipline): the committed store changes, and a file ends as
\* loaded, only in the one commit step that ends load_yaml_file, after the
\* movie, cast, song and commentary steps of the file, and it makes exactly
\* the session's writes visible; a file that raises commits nothing; and
\* while the connection lasts no open transaction is ended other than by
\* that commit and no aborted transaction is ended at all (no rollback).
C17_CommitDiscipline ==
  [][ /\ ( \/ committed' # committed
           \/ (FileEnds /\ outcome'[Len(outcome')].result = "ok") ) =>
           /\ pc = "commit"
           /\ movie_id # NULL
           /\ i > Len(data.commentaries)
           /\ Len(song_mapping) = Cardinality(Range(data.songs_order))
           /\ FileEnds
           /\ outcome'[Len(outcome')].result = "ok"
           /\ idx' = idx + 1
           /\ committed' = pending
           /\ tx' = "IDLE"
      /\ (FileEnds /\ outcome'[Len(outcome')].result # "ok") =>
           committed' = committed
      /\ (connected' /\ tx = "INTRANS" /\ tx' # "INTRANS") =>
           \/ committed' = pending
           \/ tx' = "INERROR"
      /\ (connected' /\ tx = "INTRANS" /\ committed' = committed) =>
           RowsKept(pending, pending')
      /\ (connected' /\ tx = "INERROR") => tx' = "INERROR" ]_vars

\* C17 witness: a file raised after its movie and cast writes and main went
\* on: the transaction is still open and holds the uncommitted rows
C17_Witness ==
  /\ pc = "main"
  /\ outcome # <<>>
  /\ outcome[Len(outcome)].result = "KeyError"
  /\ connected
  /\ tx = "INTRANS"
  /\ Len(pending.movies) > Len(committed.movies)

\* C18 (movie-level row per language block): when load_yaml_file reaches its
\* commit, this ingestion has inserted for each language block exactly one
\* commentaries row with a NULL song reference, carrying the text of the
\* block's first entry, and as many such rows as the document has blocks;
\* and no file with an empty language block ends as loaded.
C18_OneMovieLevelRowPerBlock ==
  /\ pc = "commit" =>
       /\ \A b \in DOMAIN data.commentaries :
            LET block == data.commentaries[b] IN
            /\ Count(WrittenCommentaries,
                     LAMBDA r : r.song_id = NULL /\ r.language = block.language) = 1
            /\ First(WrittenCommentaries,
                     LAMBDA r : r.song_id = NULL /\ r.language = block.language)
                 .commentary_text = Text(block.language, block.entries[1])
       /\ Count(WrittenCommentaries, LAMBDA r : r.song_id = NULL)
            = Len(data.commentaries)
  /\ \A j \in DOMAIN outcome :
       (\E b \in DOMAIN yaml_files[j].commentaries :
          yaml_files[j].commentaries[b].entries = <<>>)
       => outcome[j].result # "ok"

\* C18 witness: a document with two language blocks whose first key is a
\* song's reaches its commit with two movie-level rows, after a file with an
\* empty block ended with an IndexError
C18_Witness ==
  /\ pc = "commit"
  /\ Len(data.commentaries) = 2
  /\ data.commentaries[1].entries = <<"S1", "M1">>
  /\ Count(WrittenCommentaries, LAMBDA r : r.song_id = NULL) = 2
  /\ Len(outcome) = 1
  /\ outcome[1].result = "IndexError"

====
